---- MODULE Spec2Model ----
(***************************************************************************)
(* State-machine model of the ddi device-mapper target (src/dm-ddi.c):     *)
(* one delay_c engine, its delayed_bios list guarded by delayed_bios_lock, *)
(* the coalesced delay_timer, the kdelayd flush work, the sysfs delay      *)
(* attributes and the presuspend / resume / dtr lifecycle hooks.           *)
(*                                                                         *)
(* Time is counted in jiffies with HZ = 1000, so one millisecond is one    *)
(* jiffy.  Machine words are scaled down (UIntBits, LongBits) because the  *)
(* model checker's integers are 32 bits wide; every conversion keeps its   *)
(* modulo-2^w behaviour.                                                   *)
(***************************************************************************)
EXTENDS Integers, Sequences, FiniteSets, TLC

\* ------------------------------------------------------------- bounds
\* number of calls made into the target after construction: bios mapped,
\* sysfs stores and presuspends together
MaxCalls == 2
\* largest delay written as a decimal digit through sysfs or given to ctr
MaxDelay == 2
\* jiffies stops advancing here
MaxJiffies == MaxDelay
\* width of "unsigned" / "int" in the model
UIntBits == 6
\* width of "unsigned long" (jiffies) in the model
LongBits == 10

\* ------------------------------------------------------------ words
Pow2(n) == 2 ^ n
UINT_MAX == Pow2(UIntBits) - 1
ULONG_MOD == Pow2(LongBits)
\* MAX_JIFFY_OFFSET == (LONG_MAX >> 1) - 1
MAX_JIFFY_OFFSET == Pow2(LongBits - 2) - 1

\* an int stored through an unsigned lvalue
ToUnsigned(i) == i % Pow2(UIntBits)
\* an unsigned read as int
ToInt(u) == IF u >= Pow2(UIntBits - 1) THEN u - Pow2(UIntBits) ELSE u

\* msecs_to_jiffies(m) with HZ = 1000: a value negative as int saturates
msecs_to_jiffies(m) == IF ToInt(ToUnsigned(m)) < 0 THEN MAX_JIFFY_OFFSET ELSE ToUnsigned(m)

\* jiffies + offset in unsigned long arithmetic
JiffiesAdd(j, off) == (j + off) % ULONG_MOD

\* time_after_eq(a, b): (long)(a - b) >= 0
time_after_eq(a, b) == ((a - b) % ULONG_MOD) < Pow2(LongBits - 1)

\* ----------------------------------------------------- sysfs text
Digits == <<"0", "1", "2", "3", "4", "5", "6", "7", "8", "9">>
IsDigit(c) == \E i \in 1..10 : Digits[i] = c
DigitVal(c) == (CHOOSE i \in 1..10 : Digits[i] = c) - 1

\* length of the longest prefix of s made of digits
RECURSIVE DigitPrefixLen(_)
DigitPrefixLen(s) ==
    IF s = <<>> \/ ~IsDigit(Head(s)) THEN 0 ELSE 1 + DigitPrefixLen(Tail(s))

\* value of a sequence of digits, most significant first
RECURSIVE DigitsValue(_, _)
DigitsValue(s, acc) ==
    IF s = <<>> THEN acc ELSE DigitsValue(Tail(s), acc * 10 + DigitVal(Head(s)))

\* sscanf(buf, "%d", &v): [n |-> conversions done, val |-> the int parsed]
sscanf_d(buf) ==
    LET neg  == buf # <<>> /\ Head(buf) = "-"
        sgn  == buf # <<>> /\ Head(buf) \in {"-", "+"}
        rest == IF sgn THEN Tail(buf) ELSE buf
        k    == DigitPrefixLen(rest)
        mag  == DigitsValue(SubSeq(rest, 1, k), 0)
    IN  IF k = 0 THEN [n |-> 0, val |-> 0]
        ELSE [n |-> 1, val |-> IF neg THEN -mag ELSE mag]

\* the texts written to a delay attribute
Texts == { <<Digits[d + 1]>> : d \in 0..MaxDelay }
           \cup { <<"-", "1">>, <<"a", "b">> }

\* values an uninitialised "unsigned new_delay" may hold
Garbage == (0..MaxDelay) \cup {UINT_MAX}

\* --------------------------------------------------------- threads
Admitters == {"io1", "io2"}
Drainers == {"kdelayd", "suspend"}
Dirs == {"READ", "WRITE"}
BioIds == 1..MaxCalls

VARIABLES
    jiffies,        \* the tick counter
    dc,             \* struct delay_c: the scalar fields
    delayed_bios,   \* dc->delayed_bios: sequence of bio ids, head first
    info,           \* per bio: direction and struct dm_delay_info
    delay_timer,    \* dc->delay_timer: [pending, expires]
    work_pending,   \* dc->flush_expired_bios is queued on kdelayd_wq
    lock,           \* holder of delayed_bios_lock, or "none"
    adm,            \* per admitting thread: position in delay_map/delay_bio
    drn,            \* per draining thread: locals of flush_delayed_bios, and
                    \* for the time of the list walk the jiffies it began at
    ctl,            \* the sysfs writer: position in *_delay_store, and the
                    \* attribute and return value of its last call
    life,           \* lifecycle of the target
    sink,           \* bios handed to generic_make_request or remapped
    count,          \* calls made so far: [bios, calls]
    enq,            \* bio ids in the order list_add_tail ran
    uaf,            \* the timer callback ran on a freed delay_c
    timer_lock,     \* holder of dc->timer_lock, or "none"
    held,           \* what the target holds: memory, devices, workqueue, kobject
    ctr             \* delay_ctr: its arguments, position and return value

vars == <<jiffies, dc, delayed_bios, info, delay_timer, work_pending, lock,
          adm, drn, ctl, life, sink, count, enq, uaf, timer_lock, held, ctr>>

NoInfo == [dir |-> "READ", delay |-> 0, stamp |-> 0, expires |-> 0,
           bi_bdev |-> "none", bi_sector |-> 0, sectors |-> 0, logical |-> 0]
IdleAdm == [pc |-> "idle", bio |-> 0]
IdleDrn == [pc |-> "idle", idx |-> 0, start_timer |-> FALSE, next_expires |-> 0,
            flush_bios |-> <<>>, now |-> 0]
IdleCtl == [pc |-> "idle", attr |-> "none", buf |-> <<>>, new_delay |-> 0,
            ret |-> "none"]
StoppedTimer == [pending |-> FALSE, expires |-> 0]

\* The tables the target is constructed from (delay_ctr with 3 or with 6
\* arguments): a single endpoint with a read delay, and a read endpoint
\* without delay plus a delayed write endpoint.  Without a write device
\* write_delay is never set by delay_ctr and never read by delay_map; it is
\* kept at 0.
CtrArgs ==
    { [read_delay |-> 1, dev_write |-> FALSE, write_delay |-> 0],
      [read_delay |-> 0, dev_write |-> TRUE, write_delay |-> MaxDelay] }

\* the first sector of the devices' areas the tables above map to
\* (start_read, start_write), and the first sector of the target in the
\* mapped device (ti->begin)
StartRead == 8
StartWrite == 100
TiBegin == 16

\* what delay_ctr holds when it returns 0
Constructed(dev_write) ==
    {"dc", "dev_read", "kdelayd_wq", "kobj"}
        \cup (IF dev_write THEN {"dev_write"} ELSE {})

\* delay_ctr after it has returned ret to a call with argc arguments; argv
\* is not kept
CtrReturned(argc, ret) == [pc |-> "returned", argc |-> argc, argv |-> <<>>, ret |-> ret]

\* the state delay_ctr leaves when it returns 0
Init ==
    /\ jiffies = 0
    /\ \E args \in CtrArgs :
         dc = [read_delay |-> args.read_delay, write_delay |-> args.write_delay,
               dev_write |-> args.dev_write,
               may_delay |-> TRUE, reads |-> 0, writes |-> 0,
               start_read |-> StartRead,
               start_write |-> IF args.dev_write THEN StartWrite ELSE 0]
    /\ delayed_bios = <<>>
    /\ info = [b \in BioIds |-> NoInfo]
    /\ delay_timer = StoppedTimer
    /\ work_pending = FALSE
    /\ lock = "none"
    /\ adm = [a \in Admitters |-> IdleAdm]
    /\ drn = [t \in Drainers |-> IdleDrn]
    /\ ctl = IdleCtl
    /\ life = "Active"
    /\ sink = <<>>
    /\ count = [bios |-> 0, calls |-> 0]
    /\ enq = <<>>
    /\ uaf = FALSE
    /\ timer_lock = "none"
    /\ held = Constructed(dc.dev_write)
    /\ ctr = CtrReturned(IF dc.dev_write THEN 6 ELSE 3, "0")

\* ------------------------------------------------- helpers of the code
\* delay_map: the delay of the endpoint the bio is sent to
EffectiveDelay(dir) ==
    IF dir = "WRITE" /\ dc.dev_write THEN dc.write_delay ELSE dc.read_delay

\* faulty variant of MayDefer: the may_delay test is left out
MayDefer_NoFlag(delay) == delay # 0

\* delay_bio, line 358: the bio is queued unless delay is 0 or may_delay is 0
MayDefer(delay) == delay # 0 /\ dc.may_delay

\* delay_bio, line 364: expires = jiffies + msecs_to_jiffies(delay)
ExpiresFor(delay) == JiffiesAdd(jiffies, msecs_to_jiffies(delay))

\* unsigned ++ and --
Inc(u) == (u + 1) % Pow2(UIntBits)
Dec(u) == (u - 1) % Pow2(UIntBits)

\* delay_bio, lines 368-371
CountUp(d, dir) ==
    IF dir = "WRITE" THEN [d EXCEPT !.writes = Inc(@)] ELSE [d EXCEPT !.reads = Inc(@)]

\* faulty variant of CountDown: every removal is counted as a read
CountDown_Reads(d, dir) == [d EXCEPT !.reads = Dec(@)]

\* flush_delayed_bios, lines 196-199
CountDown(d, dir) ==
    IF dir = "WRITE" THEN [d EXCEPT !.writes = Dec(@)] ELSE [d EXCEPT !.reads = Dec(@)]

\* faulty variant of list_del: the entry after the current one is unlinked
list_del_Next(q, i) == SubSeq(q, 1, i) \o SubSeq(q, i + 2, Len(q))

\* faulty variant of bio_list_add: the bio is put at the head of the bio list
bio_list_add_Head(bl, b) == <<b>> \o bl

list_add_tail(q, b) == Append(q, b)
list_del(q, i) == SubSeq(q, 1, i - 1) \o SubSeq(q, i + 1, Len(q))
bio_list_add(bl, b) == Append(bl, b)

\* faulty variant of queue_timeout: the timer is set on every call
queue_timeout_Always(timer, expires) == [pending |-> TRUE, expires |-> expires]

\* queue_timeout: the timer after the call.  The expires field of a timer
\* that is not pending is never read, so it is kept at 0.
queue_timeout(timer, expires) ==
    IF ~timer.pending \/ expires < timer.expires
    THEN [pending |-> TRUE, expires |-> expires]
    ELSE timer

\* faulty variant of Expired: the test is one jiffy early
Expired_Early(flush_all, expires) == flush_all \/ time_after_eq(jiffies + 1, expires)

\* flush_delayed_bios, line 191
Expired(flush_all, expires) == flush_all \/ time_after_eq(jiffies, expires)

\* faulty variant of NextExpires: the wake time is one jiffy after the entry
NextExpires_Later(d, expires) ==
    IF ~d.start_timer THEN expires + 1
    ELSE IF expires + 1 < d.next_expires THEN expires + 1 ELSE d.next_expires

\* flush_delayed_bios, lines 203-207
NextExpires(d, expires) ==
    IF ~d.start_timer THEN expires
    ELSE IF expires < d.next_expires THEN expires ELSE d.next_expires

\* a bio at the completion sink: which bio, its direction, who passed it on,
\* the device and sector it is sent to, its size, and the offset in the
\* target it came in with
Completion(b, by) ==
    [bio |-> b, dir |-> info[b].dir, by |-> by,
     bi_bdev |-> info[b].bi_bdev, bi_sector |-> info[b].bi_sector,
     sectors |-> info[b].sectors, logical |-> info[b].logical]

\* the bios given to delay_map: bi_sector in the mapped device and
\* bio_sectors; a bio without sectors is an empty flush
DataBio == [bi_sector |-> TiBegin + 10, sectors |-> 1]
BioShapes ==
    { [bi_sector |-> TiBegin + o, sectors |-> n] : o \in {0, 10}, n \in {0, 1} }

\* dm_target_offset(ti, sector)
dm_target_offset(sector) == sector - TiBegin

\* faulty variant of Remap: every bio is sent to the read device
Remap_ReadOnly(d, dir, bio) ==
    [bi_bdev |-> "dev_read",
     bi_sector |-> d.start_read + dm_target_offset(bio.bi_sector)]

\* delay_map, lines 402-412: bi_bdev and bi_sector of the bio on return
Remap(d, dir, bio) ==
    IF dir = "WRITE" /\ d.dev_write
    THEN [bi_bdev |-> "dev_write",
          bi_sector |-> IF bio.sectors # 0
                        THEN d.start_write + dm_target_offset(bio.bi_sector)
                        ELSE bio.bi_sector]
    ELSE [bi_bdev |-> "dev_read",
          bi_sector |-> d.start_read + dm_target_offset(bio.bi_sector)]

Mapped == life \in {"Active", "Draining", "Suspended"}

\* ------------------------------------------------------- admission
\* idle submitters are interchangeable: the next bio comes from the first
FirstIdle(a) == a = "io1" \/ adm["io1"].pc # "idle"

\* delay_map and delay_bio up to line 364: pick the endpoint and its delay,
\* then either return DM_MAPIO_REMAPPED or stamp the bio
delay_map(a, dir, bio) ==
    /\ Mapped
    /\ adm[a].pc = "idle"
    /\ FirstIdle(a)
    /\ count.calls < MaxCalls
    /\ LET b == count.bios + 1
           delay == EffectiveDelay(dir)
           to == Remap(dc, dir, bio)
       IN  /\ count' = [bios |-> b, calls |-> count.calls + 1]
           /\ IF MayDefer(delay)
              THEN /\ info' = [info EXCEPT ![b] =
                        [dir |-> dir, delay |-> delay, stamp |-> jiffies,
                         expires |-> ExpiresFor(delay),
                         bi_bdev |-> to.bi_bdev, bi_sector |-> to.bi_sector,
                         sectors |-> bio.sectors,
                         logical |-> dm_target_offset(bio.bi_sector)]]
                   /\ adm' = [adm EXCEPT ![a] = [pc |-> "lock", bio |-> b]]
                   /\ sink' = sink
              ELSE /\ info' = info
                   /\ adm' = adm
                   /\ sink' = Append(sink,
                        [bio |-> b, dir |-> dir,
                         by |-> IF delay = 0 THEN "map_nodelay" ELSE "map_suspended",
                         bi_bdev |-> to.bi_bdev, bi_sector |-> to.bi_sector,
                         sectors |-> bio.sectors,
                         logical |-> dm_target_offset(bio.bi_sector)])
    /\ UNCHANGED <<jiffies, dc, delayed_bios, delay_timer, work_pending, lock,
                   drn, ctl, life, enq, uaf,
                   timer_lock, held, ctr>>

\* delay_bio, lines 366-371: take delayed_bios_lock and count the bio
delay_bio_lock(a) ==
    /\ adm[a].pc = "lock"
    /\ lock = "none"
    /\ lock' = a
    /\ dc' = CountUp(dc, info[adm[a].bio].dir)
    /\ adm' = [adm EXCEPT ![a].pc = "add"]
    /\ UNCHANGED <<jiffies, delayed_bios, info, delay_timer, work_pending,
                   drn, ctl, life, sink, count, enq, uaf,
                   timer_lock, held, ctr>>

\* delay_bio, lines 373-375: append to the list and drop the lock
delay_bio_add(a) ==
    /\ adm[a].pc = "add"
    /\ lock = a
    /\ delayed_bios' = list_add_tail(delayed_bios, adm[a].bio)
    /\ enq' = Append(enq, adm[a].bio)
    /\ lock' = "none"
    /\ adm' = [adm EXCEPT ![a].pc = "arm"]
    /\ UNCHANGED <<jiffies, dc, info, delay_timer, work_pending,
                   drn, ctl, life, sink, count, uaf,
                   timer_lock, held, ctr>>

\* queue_timeout, line 162: thread th gets past mutex_lock(&dc->timer_lock)
\* when nobody else holds it.  A thread that takes the mutex, tests and
\* sets the timer and drops the mutex in one step finds it free; a thread
\* that has taken it in a step of its own (mutex_lock_timer) holds it.
TimerLockFor(th) == timer_lock \in {"none", th}

\* delay_bio, lines 377-379: arm the timer, return DM_MAPIO_SUBMITTED
delay_bio_arm(a) ==
    /\ adm[a].pc = "arm"
    /\ TimerLockFor(a)
    /\ delay_timer' = queue_timeout(delay_timer, info[adm[a].bio].expires)
    /\ timer_lock' = "none"
    /\ adm' = [adm EXCEPT ![a] = IdleAdm]
    /\ UNCHANGED <<jiffies, dc, delayed_bios, info, work_pending, lock,
                   drn, ctl, life, sink, count, enq, uaf,
                   held, ctr>>

\* ------------------------------------------------------ time, timer
\* Nothing in the target reads the absolute value of jiffies, only
\* differences to stamps taken earlier, so the clock is advanced only while
\* a stamp is in use: a bio is stamped or queued, or the timer is pending.
Timed ==
    \/ delay_timer.pending
    \/ delayed_bios # <<>>
    \/ \E a \in Admitters : adm[a].pc # "idle"

Tick ==
    /\ jiffies < MaxJiffies
    /\ Timed
    /\ jiffies' = jiffies + 1
    /\ UNCHANGED <<dc, delayed_bios, info, delay_timer, work_pending, lock,
                   adm, drn, ctl, life, sink, count, enq, uaf,
                   timer_lock, held, ctr>>

\* faulty variant of handle_delayed_timer: the work is not queued
handle_delayed_timer_NoWork ==
    /\ delay_timer.pending
    /\ time_after_eq(jiffies, delay_timer.expires)
    /\ delay_timer' = StoppedTimer
    /\ uaf' = (uaf \/ life = "Destroyed")
    /\ UNCHANGED <<jiffies, dc, delayed_bios, info, lock, work_pending,
                   adm, drn, ctl, life, sink, count, enq,
                   timer_lock, held, ctr>>

\* the timer expires and runs handle_delayed_timer: queue_work.  After
\* delay_dtr has freed the delay_c the callback runs on freed memory.
handle_delayed_timer ==
    /\ delay_timer.pending
    /\ time_after_eq(jiffies, delay_timer.expires)
    /\ delay_timer' = StoppedTimer
    /\ IF life = "Destroyed"
       THEN uaf' = TRUE /\ work_pending' = work_pending
       ELSE uaf' = uaf /\ work_pending' = TRUE
    /\ UNCHANGED <<jiffies, dc, delayed_bios, info, lock,
                   adm, drn, ctl, life, sink, count, enq,
                   timer_lock, held, ctr>>

\* ----------------------------------------------------------- drains
\* what a drainer does when flush_delayed_bios and flush_bios have returned
Return(t, d) ==
    /\ drn' = [drn EXCEPT ![t] = IdleDrn]
    /\ life' = IF t = "suspend" THEN "Suspended" ELSE life

\* the workqueue starts flush_expired_bios
flush_expired_bios ==
    /\ work_pending
    /\ drn["kdelayd"].pc = "idle"
    /\ work_pending' = FALSE
    /\ drn' = [drn EXCEPT !["kdelayd"].pc = "lock"]
    /\ UNCHANGED <<jiffies, dc, delayed_bios, info, delay_timer, lock,
                   adm, ctl, life, sink, count, enq, uaf,
                   timer_lock, held, ctr>>

\* flush_delayed_bios, line 189
flush_lock(t) ==
    /\ drn[t].pc = "lock"
    /\ lock = "none"
    /\ lock' = t
    /\ drn' = [drn EXCEPT ![t] = [IdleDrn EXCEPT !.pc = "scan", !.idx = 1,
                                                 !.now = jiffies]]
    /\ UNCHANGED <<jiffies, dc, delayed_bios, info, delay_timer, work_pending,
                   adm, ctl, life, sink, count, enq, uaf,
                   timer_lock, held, ctr>>

\* faulty variant of flush_scan: the walk goes on from the entry after the
\* next one when it has unlinked an entry
flush_scan_Skip(t) ==
    /\ drn[t].pc = "scan"
    /\ lock = t
    /\ drn[t].idx <= Len(delayed_bios)
    /\ LET i == drn[t].idx
           b == delayed_bios[i]
       IN  IF Expired(t = "suspend", info[b].expires)
           THEN /\ delayed_bios' = list_del(delayed_bios, i)
                /\ drn' = [drn EXCEPT ![t].flush_bios = bio_list_add(@, b),
                                      ![t].idx = i + 1]
                /\ dc' = CountDown(dc, info[b].dir)
           ELSE /\ drn' = [drn EXCEPT ![t].start_timer = TRUE,
                                      ![t].next_expires =
                                          NextExpires(drn[t], info[b].expires),
                                      ![t].idx = i + 1]
                /\ UNCHANGED <<delayed_bios, dc>>
    /\ UNCHANGED <<jiffies, info, delay_timer, work_pending, lock,
                   adm, ctl, life, sink, count, enq, uaf,
                   timer_lock, held, ctr>>

\* flush_delayed_bios, lines 190-208: one iteration of the list walk
flush_scan(t) ==
    /\ drn[t].pc = "scan"
    /\ lock = t
    /\ drn[t].idx <= Len(delayed_bios)
    /\ LET i == drn[t].idx
           b == delayed_bios[i]
       IN  IF Expired(t = "suspend", info[b].expires)
           THEN /\ delayed_bios' = list_del(delayed_bios, i)
                /\ drn' = [drn EXCEPT ![t].flush_bios = bio_list_add(@, b)]
                /\ dc' = CountDown(dc, info[b].dir)
           ELSE /\ drn' = [drn EXCEPT ![t].start_timer = TRUE,
                                      ![t].next_expires =
                                          NextExpires(drn[t], info[b].expires),
                                      ![t].idx = i + 1]
                /\ UNCHANGED <<delayed_bios, dc>>
    /\ UNCHANGED <<jiffies, info, delay_timer, work_pending, lock,
                   adm, ctl, life, sink, count, enq, uaf,
                   timer_lock, held, ctr>>

\* faulty variant of flush_unlock: delayed_bios_lock is kept
flush_unlock_Keep(t) ==
    /\ drn[t].pc = "scan"
    /\ lock = t
    /\ drn[t].idx > Len(delayed_bios)
    /\ drn' = [drn EXCEPT ![t].pc = "arm", ![t].idx = 0, ![t].now = 0]
    /\ UNCHANGED <<jiffies, dc, delayed_bios, info, delay_timer, work_pending,
                   adm, ctl, life, sink, count, enq, uaf, lock,
                   timer_lock, held, ctr>>

\* flush_delayed_bios, line 210: the walk is over, drop the lock
flush_unlock(t) ==
    /\ drn[t].pc = "scan"
    /\ lock = t
    /\ drn[t].idx > Len(delayed_bios)
    /\ lock' = "none"
    /\ drn' = [drn EXCEPT ![t].pc = "arm", ![t].idx = 0, ![t].now = 0]
    /\ UNCHANGED <<jiffies, dc, delayed_bios, info, delay_timer, work_pending,
                   adm, ctl, life, sink, count, enq, uaf,
                   timer_lock, held, ctr>>

\* faulty variant of flush_arm: queue_timeout is called without the test of
\* start_timer
flush_arm_Always(t) ==
    /\ drn[t].pc = "arm"
    /\ delay_timer' = queue_timeout(delay_timer, drn[t].next_expires)
    /\ timer_lock' = timer_lock
    /\ IF drn[t].flush_bios = <<>>
       THEN Return(t, drn[t])
       ELSE /\ drn' = [drn EXCEPT ![t].pc = "flush",
                                  ![t].start_timer = FALSE, ![t].next_expires = 0]
            /\ life' = life
    /\ UNCHANGED <<jiffies, dc, delayed_bios, info, work_pending, lock,
                   adm, ctl, sink, count, enq, uaf,
                   held, ctr>>

\* flush_delayed_bios, lines 212-215: re-arm if an entry was left, and
\* return the bio list; an empty list ends flush_bios at once
flush_arm(t) ==
    /\ drn[t].pc = "arm"
    /\ drn[t].start_timer => TimerLockFor(t)
    /\ delay_timer' = IF drn[t].start_timer
                      THEN queue_timeout(delay_timer, drn[t].next_expires)
                      ELSE delay_timer
    /\ timer_lock' = IF drn[t].start_timer THEN "none" ELSE timer_lock
    /\ IF drn[t].flush_bios = <<>>
       THEN Return(t, drn[t])
       ELSE /\ drn' = [drn EXCEPT ![t].pc = "flush",
                                  ![t].start_timer = FALSE, ![t].next_expires = 0]
            /\ life' = life
    /\ UNCHANGED <<jiffies, dc, delayed_bios, info, work_pending, lock,
                   adm, ctl, sink, count, enq, uaf,
                   held, ctr>>

\* flush_bios: one generic_make_request
flush_bios(t) ==
    /\ drn[t].pc = "flush"
    /\ sink' = Append(sink, Completion(Head(drn[t].flush_bios), t))
    /\ info' = [info EXCEPT ![Head(drn[t].flush_bios)] = NoInfo]
    /\ IF Tail(drn[t].flush_bios) = <<>>
       THEN Return(t, drn[t])
       ELSE /\ drn' = [drn EXCEPT ![t].flush_bios = Tail(@)]
            /\ life' = life
    /\ UNCHANGED <<jiffies, dc, delayed_bios, delay_timer, work_pending, lock,
                   adm, ctl, count, enq, uaf,
                   timer_lock, held, ctr>>

\* ---------------------------------------------------- control plane
StoredDelay(d, attr) == IF attr = "write_delay" THEN d.write_delay ELSE d.read_delay

\* faulty variant of SetDelay: every store goes to read_delay
SetDelay_Read(d, attr, v) == [d EXCEPT !.read_delay = v]

SetDelay(d, attr, v) ==
    IF attr = "write_delay" THEN [d EXCEPT !.write_delay = v]
    ELSE [d EXCEPT !.read_delay = v]

\* store_delay, line 76: what "unsigned new_delay" may hold after
\* sscanf(buf, "%d", &new_delay); it is left uninitialised when nothing
\* was converted
ParsedDelay(buf) ==
    IF sscanf_d(buf).n = 1 THEN {ToUnsigned(sscanf_d(buf).val)} ELSE Garbage

\* store_delay, line 77: "new_delay < 0" on an unsigned
RejectedDelay(new_delay) == new_delay < 0

\* faulty variant of NoWriteDevice: the dev_write test is left out
NoWriteDevice_Off(attr) == FALSE

\* write_delay_store, line 116
NoWriteDevice(attr) == attr = "write_delay" /\ ~dc.dev_write

\* the writer after its store method has returned count
Returned(attr) == [IdleCtl EXCEPT !.attr = attr, !.ret = "count"]

\* a write(2) on read_delay or write_delay enters the store method
sysfs_write(attr, buf) ==
    /\ Mapped
    /\ ctl.pc = "idle"
    /\ count.calls < MaxCalls
    /\ count' = [count EXCEPT !.calls = @ + 1]
    /\ ctl' = [pc |-> "store", attr |-> attr, buf |-> buf, new_delay |-> 0,
               ret |-> "none"]
    /\ UNCHANGED <<jiffies, dc, delayed_bios, info, delay_timer, work_pending, lock,
                   adm, drn, life, sink, enq, uaf,
                   timer_lock, held, ctr>>

\* faulty variant of store_delay: the new delay is also applied to the bios that
\* are already queued
store_delay_Restamp ==
    /\ ctl.pc = "store"
    /\ IF ctl.attr = "write_delay" /\ ~dc.dev_write
       THEN /\ ctl' = Returned(ctl.attr)
            /\ dc' = dc
            /\ info' = info
       ELSE \E v \in ParsedDelay(ctl.buf) :
              /\ ctl' = [ctl EXCEPT !.pc = "arm", !.new_delay = v]
              /\ dc' = SetDelay(dc, ctl.attr, v)
              /\ info' = [b \in BioIds |->
                            IF b \in {delayed_bios[i] : i \in 1..Len(delayed_bios)}
                            THEN [info[b] EXCEPT !.expires = ExpiresFor(v)]
                            ELSE info[b]]
    /\ UNCHANGED <<jiffies, delayed_bios, delay_timer, work_pending, lock,
                   adm, drn, life, sink, count, enq, uaf,
                   timer_lock, held, ctr>>

\* read_delay_store / write_delay_store and store_delay, lines 76-84
store_delay ==
    /\ ctl.pc = "store"
    /\ IF NoWriteDevice(ctl.attr)
       THEN /\ ctl' = Returned(ctl.attr)
            /\ dc' = dc
       ELSE \E v \in ParsedDelay(ctl.buf) :
              IF RejectedDelay(v)
              THEN /\ ctl' = Returned(ctl.attr)
                   /\ dc' = dc
              ELSE /\ ctl' = [ctl EXCEPT !.pc = "arm", !.new_delay = v]
                   /\ dc' = SetDelay(dc, ctl.attr, v)
    /\ UNCHANGED <<jiffies, delayed_bios, info, delay_timer, work_pending, lock,
                   adm, drn, life, sink, count, enq, uaf,
                   timer_lock, held, ctr>>

\* store_delay, lines 87-90
store_delay_arm ==
    /\ ctl.pc = "arm"
    /\ TimerLockFor("ctl")
    /\ delay_timer' = queue_timeout(delay_timer, ExpiresFor(ctl.new_delay))
    /\ timer_lock' = "none"
    /\ ctl' = Returned(ctl.attr)
    /\ UNCHANGED <<jiffies, dc, delayed_bios, info, work_pending, lock,
                   adm, drn, life, sink, count, enq, uaf,
                   held, ctr>>

\* -------------------------------------------------------- lifecycle
\* delay_presuspend, line 386
delay_presuspend ==
    /\ life = "Active"
    /\ drn["suspend"].pc = "idle"
    /\ count.calls < MaxCalls
    /\ count' = [count EXCEPT !.calls = @ + 1]
    /\ dc' = [dc EXCEPT !.may_delay = FALSE]
    /\ life' = "Draining"
    /\ drn' = [drn EXCEPT !["suspend"].pc = "del_timer"]
    /\ UNCHANGED <<jiffies, delayed_bios, info, delay_timer, work_pending, lock,
                   adm, ctl, sink, enq, uaf,
                   timer_lock, held, ctr>>

\* delay_presuspend, line 387: del_timer_sync
del_timer_sync ==
    /\ drn["suspend"].pc = "del_timer"
    /\ delay_timer' = StoppedTimer
    /\ drn' = [drn EXCEPT !["suspend"].pc = "lock"]
    /\ UNCHANGED <<jiffies, dc, delayed_bios, info, work_pending, lock,
                   adm, ctl, life, sink, count, enq, uaf,
                   timer_lock, held, ctr>>

\* delay_resume
delay_resume ==
    /\ life = "Suspended"
    /\ dc' = [dc EXCEPT !.may_delay = TRUE]
    /\ life' = "Active"
    /\ UNCHANGED <<jiffies, delayed_bios, info, delay_timer, work_pending, lock,
                   adm, drn, ctl, sink, count, enq, uaf,
                   timer_lock, held, ctr>>

\* delay_dtr, line 340: the table is destroyed once no map call and no
\* sysfs store is inside the target; the attributes go first
delay_dtr ==
    /\ life = "Suspended"
    /\ \A a \in Admitters : adm[a].pc = "idle"
    /\ ctl.pc = "idle"
    /\ life' = "Destroying"
    /\ held' = held \ {"kobj"}
    /\ UNCHANGED <<jiffies, dc, delayed_bios, info, delay_timer, work_pending, lock,
                   adm, drn, ctl, sink, count, enq, uaf,
                   timer_lock, ctr>>

\* delay_dtr, lines 342-350: destroy_workqueue waits for the queued and the
\* running flush work, then the devices are put and the delay_c is freed
delay_dtr_free ==
    /\ life = "Destroying"
    /\ ~work_pending
    /\ drn["kdelayd"].pc = "idle"
    /\ life' = "Destroyed"
    /\ held' = {}
    /\ UNCHANGED <<jiffies, dc, delayed_bios, info, delay_timer, work_pending, lock,
                   adm, drn, ctl, sink, count, enq, uaf,
                   timer_lock, ctr>>

\* ------------------------------------------------------------ system
Next ==
    \/ \E a \in Admitters, dir \in Dirs : delay_map(a, dir, DataBio)
    \/ \E a \in Admitters : delay_bio_lock(a)
    \/ \E a \in Admitters : delay_bio_add(a)
    \/ \E a \in Admitters : delay_bio_arm(a)
    \/ Tick
    \/ handle_delayed_timer
    \/ flush_expired_bios
    \/ \E t \in Drainers : flush_lock(t)
    \/ \E t \in Drainers : flush_scan(t)
    \/ \E t \in Drainers : flush_unlock(t)
    \/ \E t \in Drainers : flush_arm(t)
    \/ \E t \in Drainers : flush_bios(t)
    \/ \E attr \in {"read_delay", "write_delay"}, buf \in Texts : sysfs_write(attr, buf)
    \/ store_delay
    \/ store_delay_arm
    \/ delay_presuspend
    \/ del_timer_sync
    \/ delay_resume
    \/ delay_dtr
    \/ delay_dtr_free

Spec == Init /\ [][Next]_vars

\* ------------------------------------------------- timer_lock in steps
\* The same target with queue_timeout in two steps: mutex_lock, and then the
\* test, mod_timer and mutex_unlock.
Threads == Admitters \cup Drainers \cup {"ctl"}

\* thread th is about to call queue_timeout
AtQueueTimeout(th) ==
    \/ th \in Admitters /\ adm[th].pc = "arm"
    \/ th \in Drainers /\ drn[th].pc = "arm" /\ drn[th].start_timer
    \/ th = "ctl" /\ ctl.pc = "arm"

\* queue_timeout, line 162
mutex_lock_timer(th) ==
    /\ AtQueueTimeout(th)
    /\ timer_lock = "none"
    /\ timer_lock' = th
    /\ UNCHANGED <<jiffies, dc, delayed_bios, info, delay_timer, work_pending, lock,
                   adm, drn, ctl, life, sink, count, enq, uaf,
                   held, ctr>>

FineNext ==
    \/ \E a \in Admitters, dir \in Dirs : delay_map(a, dir, DataBio)
    \/ \E a \in Admitters : delay_bio_lock(a)
    \/ \E a \in Admitters : delay_bio_add(a)
    \/ \E th \in Threads : mutex_lock_timer(th)
    \/ \E a \in Admitters : timer_lock = a /\ delay_bio_arm(a)
    \/ Tick
    \/ handle_delayed_timer
    \/ flush_expired_bios
    \/ \E t \in Drainers : flush_lock(t)
    \/ \E t \in Drainers : flush_scan(t)
    \/ \E t \in Drainers : flush_unlock(t)
    \/ \E t \in Drainers : (drn[t].start_timer => timer_lock = t) /\ flush_arm(t)
    \/ \E t \in Drainers : flush_bios(t)
    \/ \E attr \in {"read_delay", "write_delay"}, buf \in Texts : sysfs_write(attr, buf)
    \/ store_delay
    \/ timer_lock = "ctl" /\ store_delay_arm
    \/ delay_presuspend
    \/ del_timer_sync
    \/ delay_resume
    \/ delay_dtr
    \/ delay_dtr_free

SpecFine == Init /\ [][FineNext]_vars

\* ------------------------------------------------ jiffies wrapping
\* The same target shortly before jiffies wraps to 0 (the kernel starts
\* jiffies at INITIAL_JIFFIES, five minutes before the wrap of 32 bits).
WrapStart == ULONG_MOD - 2

WrapInit ==
    /\ jiffies = WrapStart
    /\ \E args \in CtrArgs :
         dc = [read_delay |-> args.read_delay, write_delay |-> args.write_delay,
               dev_write |-> args.dev_write,
               may_delay |-> TRUE, reads |-> 0, writes |-> 0,
               start_read |-> StartRead,
               start_write |-> IF args.dev_write THEN StartWrite ELSE 0]
    /\ delayed_bios = <<>>
    /\ info = [b \in BioIds |-> NoInfo]
    /\ delay_timer = StoppedTimer
    /\ work_pending = FALSE
    /\ lock = "none"
    /\ adm = [a \in Admitters |-> IdleAdm]
    /\ drn = [t \in Drainers |-> IdleDrn]
    /\ ctl = IdleCtl
    /\ life = "Active"
    /\ sink = <<>>
    /\ count = [bios |-> 0, calls |-> 0]
    /\ enq = <<>>
    /\ uaf = FALSE
    /\ timer_lock = "none"
    /\ held = Constructed(dc.dev_write)
    /\ ctr = CtrReturned(IF dc.dev_write THEN 6 ELSE 3, "0")

\* jiffies++ in unsigned long, for MaxJiffies ticks from WrapStart
TickWrap ==
    /\ (jiffies - WrapStart) % ULONG_MOD < MaxJiffies
    /\ Timed
    /\ jiffies' = JiffiesAdd(jiffies, 1)
    /\ UNCHANGED <<dc, delayed_bios, info, delay_timer, work_pending, lock,
                   adm, drn, ctl, life, sink, count, enq, uaf,
                   timer_lock, held, ctr>>

WrapNext ==
    \/ \E a \in Admitters, dir \in Dirs : delay_map(a, dir, DataBio)
    \/ \E a \in Admitters : delay_bio_lock(a)
    \/ \E a \in Admitters : delay_bio_add(a)
    \/ \E a \in Admitters : delay_bio_arm(a)
    \/ TickWrap
    \/ handle_delayed_timer
    \/ flush_expired_bios
    \/ \E t \in Drainers : flush_lock(t)
    \/ \E t \in Drainers : flush_scan(t)
    \/ \E t \in Drainers : flush_unlock(t)
    \/ \E t \in Drainers : flush_arm(t)
    \/ \E t \in Drainers : flush_bios(t)
    \/ \E attr \in {"read_delay", "write_delay"}, buf \in Texts : sysfs_write(attr, buf)
    \/ store_delay
    \/ store_delay_arm
    \/ delay_presuspend
    \/ del_timer_sync
    \/ delay_resume
    \/ delay_dtr
    \/ delay_dtr_free

SpecWrap == WrapInit /\ [][WrapNext]_vars

\* delay_map alone, applied to bios of every shape: with and without
\* sectors, at the start of the target and inside it
MapNext ==
    \/ \E a \in Admitters, dir \in Dirs, bio \in BioShapes : delay_map(a, dir, bio)
    \/ \E a \in Admitters : delay_bio_lock(a)
    \/ \E a \in Admitters : delay_bio_add(a)
    \/ \E a \in Admitters : delay_bio_arm(a)

SpecMap == Init /\ [][MapNext]_vars

\* ------------------------------------------------------ construction
\* delay_ctr step by step, from the call to its return, with every outcome
\* of the allocations and lookups it makes.
MaxArgc == 7

\* sscanf(buf, "%u%c", &v, &dummy) and sscanf(buf, "%llu%c", ...): an unsigned
\* conversion takes no sign; a character after the digits is a second
\* conversion
sscanf_uc(buf) ==
    LET k == DigitPrefixLen(buf)
    IN  [n |-> IF k = 0 THEN 0 ELSE IF k = Len(buf) THEN 1 ELSE 2,
         val |-> DigitsValue(SubSeq(buf, 1, k), 0)]

\* the texts tried for argv[i - 1]: device names, offsets, delays
ArgText(i) ==
    CASE i = 2 -> { <<"8">>, <<"8", "x">> }
      [] i = 3 -> { <<"0">>, <<"1">>, <<"-", "1">> }
      [] i = 5 -> { <<"1", "0", "0">>, <<"x">> }
      [] i = 6 -> { <<Digits[MaxDelay + 1]>>, <<>> }
      [] OTHER -> { <<"d">> }

RECURSIVE Argvs(_)
Argvs(n) == IF n = 0 THEN {<<>>} ELSE { Append(v, t) : v \in Argvs(n - 1), t \in ArgText(n) }

\* the memory kmalloc returns before any field is written; no field is read
\* before delay_ctr has written it
NoDc == [read_delay |-> 0, write_delay |-> 0, dev_write |-> FALSE,
         may_delay |-> FALSE, reads |-> 0, writes |-> 0,
         start_read |-> 0, start_write |-> 0]

CtrInit ==
    /\ jiffies = 0
    /\ dc = NoDc
    /\ delayed_bios = <<>>
    /\ info = [b \in BioIds |-> NoInfo]
    /\ delay_timer = StoppedTimer
    /\ work_pending = FALSE
    /\ lock = "none"
    /\ adm = [a \in Admitters |-> IdleAdm]
    /\ drn = [t \in Drainers |-> IdleDrn]
    /\ ctl = IdleCtl
    /\ life = "Constructing"
    /\ sink = <<>>
    /\ count = [bios |-> 0, calls |-> 0]
    /\ enq = <<>>
    /\ uaf = FALSE
    /\ timer_lock = "none"
    /\ held = {}
    /\ \E n \in 0..MaxArgc : \E v \in Argvs(n) :
          ctr = [pc |-> "argc", argc |-> n, argv |-> v, ret |-> "none"]

\* what stays as it is while delay_ctr runs
CtrFrame ==
    UNCHANGED <<jiffies, info, work_pending, lock, adm, drn, ctl, sink, count,
                enq, uaf, timer_lock>>

\* goto label, with ret set
Goto(label, ret) == [ctr EXCEPT !.pc = label, !.ret = ret]

\* lines 241-244
ctr_argc ==
    /\ ctr.pc = "argc"
    /\ IF ctr.argc # 3 /\ ctr.argc # 6
       THEN ctr' = CtrReturned(ctr.argc, "-EINVAL") /\ life' = "Failed"
       ELSE ctr' = [ctr EXCEPT !.pc = "kmalloc"] /\ life' = life
    /\ UNCHANGED <<dc, delayed_bios, delay_timer, held>>
    /\ CtrFrame

\* lines 246-252
ctr_kmalloc ==
    /\ ctr.pc = "kmalloc"
    /\ \E ok \in BOOLEAN :
          IF ok
          THEN /\ held' = held \cup {"dc"}
               /\ dc' = [dc EXCEPT !.reads = 0, !.writes = 0]
               /\ ctr' = [ctr EXCEPT !.pc = "parse_read"]
               /\ life' = life
          ELSE /\ ctr' = CtrReturned(ctr.argc, "-ENOMEM")
               /\ life' = "Failed"
               /\ UNCHANGED <<held, dc>>
    /\ UNCHANGED <<delayed_bios, delay_timer>>
    /\ CtrFrame

\* lines 254-264: argv[1] and argv[2]
ctr_parse_read ==
    /\ ctr.pc = "parse_read"
    /\ LET off == sscanf_uc(ctr.argv[2])
           del == sscanf_uc(ctr.argv[3])
       IN  IF off.n # 1
           THEN ctr' = Goto("bad", "-EINVAL") /\ dc' = dc
           ELSE IF del.n # 1
           THEN /\ ctr' = Goto("bad", "-EINVAL")
                /\ dc' = [dc EXCEPT !.start_read = off.val]
           ELSE /\ ctr' = [ctr EXCEPT !.pc = "get_dev_read"]
                /\ dc' = [dc EXCEPT !.start_read = off.val,
                                     !.read_delay = ToUnsigned(del.val)]
    /\ UNCHANGED <<delayed_bios, delay_timer, held, life>>
    /\ CtrFrame

\* lines 266-276: dm_get_device for argv[0]
ctr_get_dev_read ==
    /\ ctr.pc = "get_dev_read"
    /\ \E ok \in BOOLEAN :
          IF ok
          THEN /\ held' = held \cup {"dev_read"}
               /\ dc' = [dc EXCEPT !.dev_write = FALSE]
               /\ ctr' = [ctr EXCEPT !.pc = IF ctr.argc = 3 THEN "out" ELSE "parse_write"]
          ELSE /\ ctr' = Goto("bad", "-ENXIO")
               /\ UNCHANGED <<held, dc>>
    /\ UNCHANGED <<delayed_bios, delay_timer, life>>
    /\ CtrFrame

\* lines 278-287: argv[4] and argv[5]
ctr_parse_write ==
    /\ ctr.pc = "parse_write"
    /\ LET off == sscanf_uc(ctr.argv[5])
           del == sscanf_uc(ctr.argv[6])
       IN  IF off.n # 1
           THEN ctr' = Goto("bad_dev_read", "-EINVAL") /\ dc' = dc
           ELSE IF del.n # 1
           THEN /\ ctr' = Goto("bad_dev_read", "-EINVAL")
                /\ dc' = [dc EXCEPT !.start_write = off.val]
           ELSE /\ ctr' = [ctr EXCEPT !.pc = "get_dev_write"]
                /\ dc' = [dc EXCEPT !.start_write = off.val,
                                     !.write_delay = ToUnsigned(del.val)]
    /\ UNCHANGED <<delayed_bios, delay_timer, held, life>>
    /\ CtrFrame

\* lines 289-294: dm_get_device for argv[3]
ctr_get_dev_write ==
    /\ ctr.pc = "get_dev_write"
    /\ \E ok \in BOOLEAN :
          IF ok
          THEN /\ held' = held \cup {"dev_write"}
               /\ dc' = [dc EXCEPT !.dev_write = TRUE]
               /\ ctr' = [ctr EXCEPT !.pc = "out"]
          ELSE /\ ctr' = Goto("bad_dev_read", "-ENXIO")
               /\ UNCHANGED <<held, dc>>
    /\ UNCHANGED <<delayed_bios, delay_timer, life>>
    /\ CtrFrame

\* lines 296-314: alloc_workqueue, then the timer, the work, the list, the
\* timer lock and may_delay are set up
ctr_alloc_workqueue ==
    /\ ctr.pc = "out"
    /\ \E ok \in BOOLEAN :
          IF ok
          THEN /\ held' = held \cup {"kdelayd_wq"}
               /\ delay_timer' = StoppedTimer
               /\ delayed_bios' = <<>>
               /\ dc' = [dc EXCEPT !.may_delay = TRUE]
               /\ ctr' = [ctr EXCEPT !.pc = "sysfs"]
          ELSE /\ ctr' = Goto("bad_queue", "-EINVAL")
               /\ UNCHANGED <<held, delay_timer, delayed_bios, dc>>
    /\ life' = life
    /\ CtrFrame

\* lines 316-322 and init_dev_kobject: kobject_create_and_add may fail, and
\* sysfs_create_group may fail, after which the kobject is put again
ctr_init_dev_kobject ==
    /\ ctr.pc = "sysfs"
    /\ \E outcome \in {"ok", "no_kobject", "no_group"} :
          IF outcome = "ok"
          THEN /\ held' = held \cup {"kobj"}
               /\ ctr' = CtrReturned(ctr.argc, "0")
               /\ life' = "Active"
          ELSE /\ ctr' = Goto("bad_sysfs", IF outcome = "no_kobject" THEN "-ENOMEM"
                                           ELSE "-EEXIST")
               /\ UNCHANGED <<held, life>>
    /\ UNCHANGED <<dc, delayed_bios, delay_timer>>
    /\ CtrFrame

BadLabels == <<"bad_sysfs", "bad_queue", "bad_dev_read", "bad">>

\* faulty variant of Unwound: bad_queue does not put the write device
Unwound_NoWrite(label, d, h) ==
    CASE label = "bad_sysfs" -> h \ {"kdelayd_wq"}
      [] label = "bad_queue" -> h
      [] label = "bad_dev_read" -> h \ {"dev_read"}
      [] label = "bad" -> h \ {"dc"}

\* lines 324-332: what is still held after the statement at a label
Unwound(label, d, h) ==
    CASE label = "bad_sysfs" -> h \ {"kdelayd_wq"}
      [] label = "bad_queue" -> IF d.dev_write THEN h \ {"dev_write"} ELSE h
      [] label = "bad_dev_read" -> h \ {"dev_read"}
      [] label = "bad" -> h \ {"dc"}

\* lines 324-333: the statement at one label, falling through to the next
ctr_unwind ==
    /\ \E i \in 1..Len(BadLabels) :
          /\ ctr.pc = BadLabels[i]
          /\ held' = Unwound(BadLabels[i], dc, held)
          /\ IF i < Len(BadLabels)
             THEN ctr' = [ctr EXCEPT !.pc = BadLabels[i + 1]] /\ life' = life
             ELSE ctr' = CtrReturned(ctr.argc, ctr.ret) /\ life' = "Failed"
    /\ UNCHANGED <<dc, delayed_bios, delay_timer>>
    /\ CtrFrame

CtrNext ==
    \/ ctr_argc
    \/ ctr_kmalloc
    \/ ctr_parse_read
    \/ ctr_get_dev_read
    \/ ctr_parse_write
    \/ ctr_get_dev_write
    \/ ctr_alloc_workqueue
    \/ ctr_init_dev_kobject
    \/ ctr_unwind

SpecCtr == CtrInit /\ [][CtrNext]_vars

\* ------------------------------------------------------------ claims
Occurs(s, x) == Cardinality({i \in 1..Len(s) : s[i] = x})
Elems(s) == {s[i] : i \in 1..Len(s)}
Pos(s, x) == CHOOSE i \in 1..Len(s) : s[i] = x
SinkBios == [i \in 1..Len(sink) |-> sink[i].bio]
\* bios delay_bio has put on the list at some time
Deferred == Elems(enq)
Held(b) == Occurs(drn["kdelayd"].flush_bios, b) + Occurs(drn["suspend"].flush_bios, b)
QueuedDir(dir) == Cardinality({i \in 1..Len(delayed_bios) : info[delayed_bios[i]].dir = dir})

\* C1: a bio that delay_bio deferred is on the delayed_bios list exactly once
\* from list_add_tail until a drain takes it off, is then held by exactly one
\* drain, and reaches generic_make_request once; no bio is ever submitted
\* twice, and a bio not yet added is on no list.
C1_QueuedOnceSubmittedOnce ==
    \A b \in BioIds :
        /\ Occurs(SinkBios, b) <= 1
        /\ b \in Deferred =>
             Occurs(delayed_bios, b) + Held(b) + Occurs(SinkBios, b) = 1
        /\ b \notin Deferred => Occurs(delayed_bios, b) + Held(b) = 0

\* C1 witness: a run of the flush worker and the forced drain of presuspend
\* overlap, and the forced drain holds a bio it took off the list
C1_Witness ==
    /\ drn["kdelayd"].pc # "idle"
    /\ drn["suspend"].flush_bios # <<>>

\* C2: no bio that was deferred is left unsubmitted when the target has been
\* destroyed (delay_dtr has returned)
C2_NoneAbandoned ==
    life = "Destroyed" => \A b \in Deferred : Occurs(SinkBios, b) = 1

\* C3 as claimed: deferred bios of one direction reach the sink in the order
\* in which they were put on the list
C3_FifoPerDirection ==
    \A i, j \in 1..Len(sink) :
        ( /\ i < j
          /\ sink[i].bio \in Deferred
          /\ sink[j].bio \in Deferred
          /\ sink[i].dir = sink[j].dir )
        => Pos(enq, sink[i].bio) < Pos(enq, sink[j].bio)

InEnqOrder(s) ==
    \A i, j \in 1..Len(s) : i < j => Pos(enq, s[i]) < Pos(enq, s[j])

\* C3 amended: the list and the bio list of every drain keep the order of
\* list_add_tail, and a drain hands a bio to generic_make_request before
\* every other bio it still holds, so the bios taken off by one drain are
\* submitted in the order they were queued
C3_FifoWithinDrain ==
    /\ [](InEnqOrder(delayed_bios) /\ \A t \in Drainers : InEnqOrder(drn[t].flush_bios))
    /\ [][\A t \in Drainers :
            (drn[t].pc = "flush" /\ drn'[t] # drn[t]) =>
                /\ Len(sink') = Len(sink) + 1
                /\ sink'[Len(sink')].by = t
                /\ sink'[Len(sink')].bio \in Elems(drn[t].flush_bios)
                /\ \A c \in Elems(drn[t].flush_bios) \ {sink'[Len(sink')].bio} :
                      Pos(enq, sink'[Len(sink')].bio) < Pos(enq, c)]_vars

\* C3 witness: one drain has submitted two bios of the same direction
C3_Witness ==
    \E i \in 1..Len(sink) - 1 :
        /\ sink[i].by \in Drainers
        /\ sink[i + 1].by = sink[i].by
        /\ sink[i + 1].dir = sink[i].dir
        /\ drn[sink[i].by].pc = "idle"

\* C4: the flush worker hands a bio to generic_make_request no earlier than
\* delay milliseconds after delay_bio stamped it
C4_NotBeforeExpiry ==
    [][\A b \in BioIds :
          sink' = Append(sink, Completion(b, "kdelayd")) =>
              jiffies >= info[b].stamp + msecs_to_jiffies(info[b].delay)]_vars

\* C4 witness: the flush worker has submitted a bio while the target was
\* never suspended
C4_Witness ==
    /\ \E i \in 1..Len(sink) : sink[i].by = "kdelayd"
    /\ life = "Active"
    /\ dc.may_delay

\* C6: once presuspend has returned and until resume, the list is empty,
\* both counters are 0 and every deferred bio has been submitted once
C6_DrainedWhileSuspended ==
    life = "Suspended" =>
        /\ delayed_bios = <<>>
        /\ lock = "none" => (dc.reads = 0 /\ dc.writes = 0)
        /\ \A b \in Deferred : Occurs(SinkBios, b) = 1

\* C7: whenever nobody holds delayed_bios_lock, reads and writes are the
\* numbers of queued bios of that direction
C7_CountersMatchQueue ==
    lock = "none" =>
        /\ dc.reads = QueuedDir("READ")
        /\ dc.writes = QueuedDir("WRITE")

\* C7 witness: two bios were queued, a drain has taken one of them off, and
\* the lock is free
C7_Witness ==
    /\ lock = "none"
    /\ dc.reads + dc.writes = 1
    /\ Len(enq) = 2

\* C5: no step of a sysfs store changes the list or the data of a bio
\* (direction, stamp, expires); the data of a bio does not change from the
\* stamp until it is submitted; and a bio mapped while no store is running
\* is stamped with jiffies + the delay the last store left in the delay_c
C5_StoreKeepsQueuedExpiry ==
    /\ [][ctl' # ctl => (delayed_bios' = delayed_bios /\ info' = info)]_vars
    /\ [][\A b \in BioIds :
            (b \in Elems(delayed_bios) /\ b \in Elems(delayed_bios')) =>
                info'[b] = info[b]]_vars
    /\ [][\A b \in BioIds :
            (count'.bios = b /\ count.bios = b - 1 /\ adm' # adm /\ ctl.pc = "idle") =>
                /\ info'[b].delay = StoredDelay(dc, IF info'[b].dir = "WRITE" /\ dc.dev_write
                                                     THEN "write_delay" ELSE "read_delay")
                /\ info'[b].expires = jiffies + msecs_to_jiffies(info'[b].delay)]_vars

\* C5 witness: a store has returned and left a shorter delay than the one
\* a bio that is still queued was stamped with, and the bio has kept its
\* expires
C5_Witness ==
    /\ ctl.pc = "idle" /\ ctl.ret = "count"
    /\ \E i \in 1..Len(delayed_bios) :
          LET b == delayed_bios[i]
          IN  /\ StoredDelay(dc, ctl.attr) < info[b].delay
              /\ EffectiveDelay(info[b].dir) = StoredDelay(dc, ctl.attr)
              /\ info[b].expires = info[b].stamp + info[b].delay

\* C8: a bio mapped with delay 0, or while may_delay is 0, is passed on at
\* once (DM_MAPIO_REMAPPED) and leaves the list, both counters and the timer
\* unchanged; any other bio is stamped with jiffies + delay, appended at the
\* tail of the list, and is on record as queued when delay_bio returns
C8_AdmissionOutcome ==
    /\ [][\A b \in BioIds :
            (count'.bios = b /\ count.bios = b - 1) =>
              LET dir == IF adm' = adm THEN sink'[Len(sink')].dir ELSE info'[b].dir
                  delay == IF dir = "WRITE" /\ dc.dev_write
                           THEN dc.write_delay ELSE dc.read_delay
              IN  IF delay = 0 \/ ~dc.may_delay
                  THEN /\ adm' = adm
                       /\ Len(sink') = Len(sink) + 1
                       /\ sink'[Len(sink')].bio = b
                       /\ delayed_bios' = delayed_bios
                       /\ dc' = dc
                       /\ delay_timer' = delay_timer
                  ELSE /\ sink' = sink
                       /\ \E a \in Admitters : adm'[a] = [pc |-> "lock", bio |-> b]
                       /\ info'[b].expires = jiffies + msecs_to_jiffies(delay)]_vars
    /\ [][\A a \in Admitters :
            (adm[a].pc = "add" /\ adm'[a].pc # "add") =>
                delayed_bios' = delayed_bios \o <<adm[a].bio>>]_vars
    /\ [][\A a \in Admitters :
            (adm[a].pc = "arm" /\ adm'[a].pc = "idle") => adm[a].bio \in Deferred]_vars

\* C8 witness: a bio was passed on because may_delay was 0 although its
\* delay was not 0
C8_Witness ==
    /\ \E i \in 1..Len(sink) : sink[i].by = "map_suspended"
    /\ \A a \in Admitters : adm[a].pc = "idle"

\* what the claims call a malformed delay: no decimal integer, or negative
Malformed(buf) == sscanf_d(buf).n = 0 \/ sscanf_d(buf).val < 0

\* C9: a store of a malformed text changes no field of the delay_c, does
\* not go on to arm the timer, and returns count
C9_MalformedLeavesDelay ==
    [][(ctl.pc = "store" /\ ctl' # ctl /\ Malformed(ctl.buf)) =>
          /\ dc' = dc
          /\ ctl'.pc = "idle"
          /\ ctl'.ret = "count"]_vars

Mapping(b, sink2, info2, passed) == IF passed THEN sink2[Len(sink2)] ELSE info2[b]

\* C11 as claimed: a write on a target with a write device goes to the write
\* device, any other bio to the read device, and bi_sector becomes the
\* start of that device's area plus the bio's offset in the target, for a
\* bio of any size
C11_RedirectAndTranslateAll ==
    [][\A b \in BioIds :
          (count'.bios = b /\ count.bios = b - 1) =>
            LET m == Mapping(b, sink', info', adm' = adm)
            IN  IF m.dir = "WRITE" /\ dc.dev_write
                THEN /\ m.bi_bdev = "dev_write"
                     /\ m.bi_sector = dc.start_write + m.logical
                ELSE /\ m.bi_bdev = "dev_read"
                     /\ m.bi_sector = dc.start_read + m.logical]_vars

\* C11 amended: as above, and a bio that is queued is stamped with the
\* delay of its device, except that a write without sectors sent to the
\* write device keeps the bi_sector it came with
C11_RedirectAndTranslate ==
    [][\A b \in BioIds :
          (count'.bios = b /\ count.bios = b - 1) =>
            LET m == Mapping(b, sink', info', adm' = adm)
            IN  IF m.dir = "WRITE" /\ dc.dev_write
                THEN /\ m.bi_bdev = "dev_write"
                     /\ adm' # adm => m.delay = dc.write_delay
                     /\ m.bi_sector = IF m.sectors = 0 THEN TiBegin + m.logical
                                      ELSE dc.start_write + m.logical
                ELSE /\ m.bi_bdev = "dev_read"
                     /\ adm' # adm => m.delay = dc.read_delay
                     /\ m.bi_sector = dc.start_read + m.logical]_vars

\* C11 witness: a write with sectors, at offset 10 of the target, was queued
\* for the write device, and a write without sectors was mapped as well
C11_Witness ==
    /\ dc.dev_write
    /\ \E b \in BioIds :
          /\ info[b].dir = "WRITE"
          /\ info[b].sectors # 0
          /\ info[b].logical = 10
          /\ info[b].bi_sector = StartWrite + 10
          /\ adm["io1"].bio = b
    /\ \E c \in BioIds : info[c].dir = "WRITE" /\ info[c].sectors = 0 /\ adm["io2"].bio = c

\* C12: delay_ctr returns 0 only to a call with 3 or 6 arguments and then
\* holds the memory, the devices named, the workqueue and the kobject; it
\* never returns 0 once a step has failed (every goto carries an error to
\* the return); and when it returns an error it holds nothing
C12_CtrAllOrNothing ==
    /\ [](ctr.pc = "returned" =>
            IF ctr.ret = "0"
            THEN /\ ctr.argc \in {3, 6}
                 /\ dc.dev_write <=> ctr.argc = 6
                 /\ held = Constructed(dc.dev_write)
                 /\ life = "Active"
            ELSE /\ held = {}
                 /\ life = "Failed")
    /\ []((\E i \in 1..Len(BadLabels) : ctr.pc = BadLabels[i])
             => ctr.ret \notin {"0", "none"})
    /\ [][(\E i \in 1..Len(BadLabels) : ctr.pc = BadLabels[i]) =>
            (ctr'.ret = ctr.ret /\ ctr'.argc = ctr.argc)]_vars
    /\ [][(ctr.pc # "returned" /\ ctr'.pc = "returned" /\ ctr.argc \notin {3, 6})
             => ctr'.ret = "-EINVAL"]_vars

\* C12 witness: a call with 6 arguments failed in init_dev_kobject, after
\* both devices and the workqueue had been taken, and has returned
C12_Witness ==
    /\ ctr.pc = "returned"
    /\ ctr.argc = 6
    /\ ctr.ret \in {"-ENOMEM", "-EEXIST"}
    /\ dc.dev_write
    /\ dc.may_delay
    /\ held = {}

\* the smallest expires on the list
MinQueuedExpiry ==
    CHOOSE e \in {info[b].expires : b \in Elems(delayed_bios)} :
        \A b \in Elems(delayed_bios) : e <= info[b].expires

\* the timer is pending and fires no later than the first queued bio expires
TimerCoversQueue ==
    delay_timer.pending /\ delay_timer.expires <= MinQueuedExpiry

\* an admission has put its bio on the list and not yet called queue_timeout
AdmissionBeforeArm == \E a \in Admitters : adm[a].pc = "arm"

\* the flush work is queued, or runs and has not yet come to its
\* queue_timeout
WorkBeforeArm == work_pending \/ drn["kdelayd"].pc \in {"lock", "scan", "arm"}

\* C13 as claimed: in every state with a bio on the list the timer is
\* pending and fires no later than the smallest expires on the list
C13_TimerAlwaysCoversQueue ==
    delayed_bios # <<>> => TimerCoversQueue

\* C13 amended: as long as the delay_c exists, the same holds in every state
\* in which no admission is between list_add_tail and queue_timeout, no
\* flush work is queued or running ahead of its queue_timeout, and
\* presuspend is not running
C13_TimerCoversQueueAtRest ==
    ( /\ life \in {"Active", "Suspended", "Destroying"}
      /\ ~AdmissionBeforeArm
      /\ ~WorkBeforeArm
      /\ delayed_bios # <<>> )
    => TimerCoversQueue

\* C13 witness: two bios are queued with different expires, nothing is
\* under way, and the timer is set to the smaller one
C13_Witness ==
    /\ life = "Active"
    /\ Len(delayed_bios) = 2
    /\ info[delayed_bios[1]].expires # info[delayed_bios[2]].expires
    /\ ~AdmissionBeforeArm
    /\ ~WorkBeforeArm
    /\ drn["kdelayd"].pc = "idle"
    /\ delay_timer.pending
    /\ delay_timer.expires = MinQueuedExpiry

\* C14: while the target is active or presuspend runs, a bio on the list
\* is covered by the timer, by flush work queued or running ahead of its
\* queue_timeout, by an admission that has yet to call queue_timeout, or
\* by the forced drain of presuspend
C14_NoneStranded ==
    (life \in {"Active", "Draining"} /\ delayed_bios # <<>>) =>
        \/ TimerCoversQueue
        \/ WorkBeforeArm
        \/ AdmissionBeforeArm
        \/ life = "Draining"

\* C14 witness: the timer has fired, the flush worker has taken an expired
\* bio off the list and left another one, and has yet to set the timer
C14_Witness ==
    /\ life = "Active"
    /\ delayed_bios # <<>>
    /\ ~delay_timer.pending
    /\ ~AdmissionBeforeArm
    /\ ~work_pending
    /\ drn["kdelayd"].pc = "arm"
    /\ drn["kdelayd"].flush_bios # <<>>

\* the expires values handed to queue_timeout in a step: by delay_bio, by
\* flush_delayed_bios and by store_delay
ArmCandidates ==
    { info[adm[a].bio].expires :
        a \in {x \in Admitters : adm[x].pc = "arm" /\ adm'[x].pc = "idle"} }
    \cup { drn[t].next_expires :
        t \in {x \in Drainers : drn[x].pc = "arm" /\ drn'[x].pc # "arm"
                                   /\ drn[x].start_timer} }
    \cup { (jiffies + msecs_to_jiffies(ctl.new_delay)) % ULONG_MOD :
        c \in {x \in {"ctl"} : ctl.pc = "arm" /\ ctl'.pc = "idle"} }

\* C15: a call of queue_timeout with expires e sets a timer that is not
\* pending to e, moves a pending timer to e when e is earlier than the time
\* it is set to, and leaves it as it is otherwise; so after the call the
\* timer is pending, no later than e, and no later than it was
C15_ArmOnlyEarlier ==
    [][\A e \in ArmCandidates :
          /\ delay_timer'.pending
          /\ delay_timer'.expires <= e
          /\ IF ~delay_timer.pending THEN delay_timer'.expires = e
             ELSE IF e < delay_timer.expires THEN delay_timer'.expires = e
             ELSE delay_timer' = delay_timer
          /\ delay_timer.pending => delay_timer'.expires <= delay_timer.expires]_vars

\* C15 witness: a store has returned and has moved the timer ahead of the
\* expires of every queued bio
C15_Witness ==
    /\ ctl.pc = "idle" /\ ctl.ret = "count"
    /\ delayed_bios # <<>>
    /\ ~AdmissionBeforeArm
    /\ delay_timer.pending
    /\ delay_timer.expires < MinQueuedExpiry

\* C16: when a store of a decimal number d >= 0 returns, the attribute
\* written holds d and the timer is pending and fires no later than d
\* milliseconds after the store read jiffies
C16_StoreSetsDelayAndArms ==
    [][(ctl.pc = "arm" /\ ctl'.pc = "idle" /\ ~Malformed(ctl.buf)) =>
          /\ StoredDelay(dc', ctl.attr) = sscanf_d(ctl.buf).val
          /\ \A attr \in {"read_delay", "write_delay"} \ {ctl.attr} :
                StoredDelay(dc', attr) = StoredDelay(dc, attr)
          /\ delay_timer'.pending
          /\ delay_timer'.expires <= jiffies + sscanf_d(ctl.buf).val]_vars

\* C16 witness: a store of 2 to read_delay has returned on a target that
\* has seen no bio; the timer is set to 2 jiffies after the store
C16_Witness ==
    /\ ctl.pc = "idle" /\ ctl.ret = "count" /\ ctl.attr = "read_delay"
    /\ dc.read_delay = 2
    /\ count.bios = 0
    /\ delay_timer.pending
    /\ delay_timer.expires = jiffies + 2

\* C17: the step in which the timer fires stops the timer and queues the
\* work, nothing else; when a drain drops delayed_bios_lock, start_timer is
\* set exactly if a bio is left on the list, and next_expires is then the
\* smallest expires left; a drain calls queue_timeout with next_expires if
\* start_timer is set and leaves the timer alone otherwise; the forced
\* drain leaves nothing and never sets start_timer
C17_RearmByWorkerOnly ==
    /\ [][(work_pending' /\ ~work_pending) =>
            /\ delay_timer.pending
            /\ delay_timer' = StoppedTimer
            /\ UNCHANGED <<delayed_bios, info, dc, drn, adm, ctl, sink>>]_vars
    /\ [][\A t \in Drainers :
            (drn[t].pc = "scan" /\ drn'[t].pc = "arm") =>
                /\ drn'[t].start_timer <=> delayed_bios # <<>>
                /\ delayed_bios # <<>> => drn'[t].next_expires = MinQueuedExpiry
                /\ t = "suspend" => delayed_bios = <<>>]_vars
    /\ [][\A t \in Drainers :
            (drn[t].pc = "arm" /\ drn'[t].pc # "arm") =>
                IF drn[t].start_timer
                THEN /\ delay_timer'.pending
                     /\ delay_timer'.expires <= drn[t].next_expires
                     /\ delay_timer' # delay_timer =>
                            delay_timer'.expires = drn[t].next_expires
                ELSE delay_timer' = delay_timer]_vars
    /\ [](~drn["suspend"].start_timer)

\* C17 witness: the flush worker has taken a bio off the list, left another
\* one, set the timer to the expires of the one left, and is handing on
\* what it took
C17_Witness ==
    /\ life = "Active"
    /\ drn["kdelayd"].pc = "flush"
    /\ delayed_bios # <<>>
    /\ \A a \in Admitters : adm[a].pc = "idle"
    /\ ctl.ret = "none"
    /\ delay_timer.pending
    /\ delay_timer.expires = MinQueuedExpiry

\* the list as it was when the drain took delayed_bios_lock: nobody else
\* changes it while the lock is held
WalkedBios(t) == Elems(drn[t].flush_bios) \cup Elems(delayed_bios)

\* the bios of the walked list that a filter "expires <= now" selects
DueAt(t, now) == {b \in WalkedBios(t) : t = "suspend" \/ info[b].expires <= now}

\* what every step of the list walk does to the list, the bio list and the
\* counters, whichever bio it looks at
WalkKeepsOrderAndCounts ==
    \A t \in Drainers :
        (drn[t].pc = "scan" /\ drn'[t].pc = "scan" /\ drn'[t] # drn[t]) =>
            LET b == delayed_bios[drn[t].idx]
            IN  IF delayed_bios' # delayed_bios
                THEN /\ delayed_bios' = SelectSeq(delayed_bios, LAMBDA x : x # b)
                     /\ drn'[t].flush_bios = drn[t].flush_bios \o <<b>>
                     /\ IF info[b].dir = "WRITE"
                        THEN dc' = [dc EXCEPT !.writes = (@ - 1) % Pow2(UIntBits)]
                        ELSE dc' = [dc EXCEPT !.reads = (@ - 1) % Pow2(UIntBits)]
                ELSE /\ drn'[t].flush_bios = drn[t].flush_bios
                     /\ dc' = dc

\* C18 as claimed: a drain called at time now takes exactly the bios with
\* expires <= now off the list (all of them when forced), in the order they
\* were queued, keeps the order of the others, and counts each bio taken
\* down once
C18_DrainIsFilterAtNow ==
    /\ [][WalkKeepsOrderAndCounts]_vars
    /\ [][\A t \in Drainers :
            (drn[t].pc = "scan" /\ drn'[t].pc = "arm") =>
                /\ Elems(drn[t].flush_bios) = DueAt(t, drn[t].now)
                /\ InEnqOrder(drn[t].flush_bios)
                /\ InEnqOrder(delayed_bios)]_vars

\* C18 amended: jiffies is read again for every entry, so a drain takes
\* every bio that had expired when the walk began, takes no bio that has
\* not expired when the walk ends, and may or may not take one that expires
\* in between; the rest is as claimed
C18_DrainIsFilterDuringWalk ==
    /\ [][WalkKeepsOrderAndCounts]_vars
    /\ [][\A t \in Drainers :
            (drn[t].pc = "scan" /\ drn'[t].pc = "arm") =>
                /\ DueAt(t, drn[t].now) \subseteq Elems(drn[t].flush_bios)
                /\ Elems(drn[t].flush_bios) \subseteq DueAt(t, jiffies)
                /\ InEnqOrder(drn[t].flush_bios)
                /\ InEnqOrder(delayed_bios)]_vars

\* C18 witness: the flush worker has ended its walk; it took a bio that had
\* expired and left one that was queued before it and has not expired
C18_Witness ==
    /\ drn["kdelayd"].pc = "arm"
    /\ Len(drn["kdelayd"].flush_bios) = 1
    /\ Len(delayed_bios) = 1
    /\ info[delayed_bios[1]].expires > jiffies
    /\ Pos(enq, delayed_bios[1]) < Pos(enq, drn["kdelayd"].flush_bios[1])

\* C19: once presuspend has stopped the timer and the delay_c has been
\* freed, the timer is not pending and its callback has not run on the
\* freed delay_c
C19_NoTimerOnDestroyed ==
    life = "Destroyed" => (~delay_timer.pending /\ ~uaf)

\* the next step of the thread that holds delayed_bios_lock
LockHolderStep ==
    \/ \E a \in Admitters : lock = a /\ delay_bio_add(a)
    \/ \E t \in Drainers : lock = t /\ (flush_scan(t) \/ flush_unlock(t))

\* the next step of the thread that holds timer_lock
TimerLockHolderStep ==
    \/ \E a \in Admitters : timer_lock = a /\ delay_bio_arm(a)
    \/ \E t \in Drainers : timer_lock = t /\ flush_arm(t)
    \/ timer_lock = "ctl" /\ store_delay_arm

\* C20: no thread holds delayed_bios_lock and timer_lock together; a thread
\* that passes a bio on (generic_make_request in flush_bios, or the return
\* of DM_MAPIO_REMAPPED) holds neither; and the holder of either lock can
\* always take its next step, so no thread waits for a lock for ever
C20_LocksNeverNested ==
    /\ \A th \in Threads : ~(lock = th /\ timer_lock = th)
    /\ \A t \in Drainers :
          drn[t].pc \in {"idle", "flush"} => (lock # t /\ timer_lock # t)
    /\ \A a \in Admitters :
          adm[a].pc = "idle" => (lock # a /\ timer_lock # a)
    /\ lock # "none" => ENABLED LockHolderStep
    /\ timer_lock # "none" => ENABLED TimerLockHolderStep

\* C20 witness: the store method holds timer_lock while an admission holds
\* delayed_bios_lock
C20_Witness ==
    /\ timer_lock = "ctl"
    /\ lock \in Admitters

\* C21: across the wrap of jiffies, a call of queue_timeout with an expires
\* that is not before the time the pending timer is set to (in the order
\* of time_after_eq) leaves the timer as it is, and when a drain ends its
\* walk, next_expires is not after the expires of any bio left (in the
\* same order)
C21_WrapSafeScheduling ==
    /\ [][\A e \in ArmCandidates :
            (delay_timer.pending /\ time_after_eq(e, delay_timer.expires))
                => delay_timer' = delay_timer]_vars
    /\ [][\A t \in Drainers :
            (drn[t].pc = "scan" /\ drn'[t].pc = "arm") =>
                \A b \in Elems(delayed_bios) :
                    time_after_eq(info[b].expires, drn'[t].next_expires)]_vars

====
